---- MODULE Spec2Model ----
(***************************************************************************)
(* Model of scikit_build_core/resources/_editable_redirect.py: the         *)
(* editable-install meta path finder (ScikitBuildRedirectingFinder), its   *)
(* table of submodule search locations, find_spec and rebuild.             *)
(*                                                                         *)
(* A Python str is a sequence of tokens.  A token is a run of characters   *)
(* that is never split: "/" (os.sep), ":" (os.pathsep), "." (the module    *)
(* separator), "__init__.py", and plain words.  No concatenation of the    *)
(* other tokens spells "__init__.py", so the substring test of line 78 is  *)
(* membership of that token.                                               *)
(***************************************************************************)
EXTENDS Integers, Sequences, FiniteSets, TLC

VARIABLES
    known_source_files,          \* self.known_source_files : module -> file
    known_wheel_files,           \* self.known_wheel_files  : module -> file
    rebuild_flag,                \* self.rebuild_flag
    verbose,                     \* self.verbose
    installed,                   \* "no" | "ok" | "ImportError" : outcome of install()
    submodule_search_locations,  \* self.submodule_search_locations : module -> set of dirs
    pkgs,                        \* self.pkgs
    import_error,                \* the entry named by the ImportError of line 91
    build_dirs,                  \* the build directories of the finders of child processes
    procs                        \* the chain of processes, parent first; the last one runs

vars == << known_source_files, known_wheel_files, rebuild_flag, verbose, installed,
           submodule_search_locations, pkgs, import_error, build_dirs, procs >>

-----------------------------------------------------------------------------
(* Bounds *)

\* Longest parent-to-child chain of processes.
MaxDepth == 3

\* Largest number of entries of one table.
MaxEntries == 2

-----------------------------------------------------------------------------
(* str, os.path *)

SEP == "/"
PATHSEP == ":"
DOT == "."
INIT_PY == "__init__.py"
EmptyStr == << >>
None == << "None" >>

\* str.find(sep): the first index of sep in s, 0 when there is none.
RECURSIVE FindFrom(_, _, _)
FindFrom(s, sep, i) ==
    IF i > Len(s) THEN 0
    ELSE IF s[i] = sep THEN i
    ELSE FindFrom(s, sep, i + 1)

\* str.rfind(sep) + 1: the last index of sep in s, 0 when there is none.
RECURSIVE RFindFrom(_, _, _)
RFindFrom(s, sep, i) ==
    IF i = 0 THEN 0
    ELSE IF s[i] = sep THEN i
    ELSE RFindFrom(s, sep, i - 1)

\* s.split(sep): an explicit separator splits at every occurrence, and "" gives [""].
RECURSIVE Split(_, _)
Split(s, sep) ==
    LET i == FindFrom(s, sep, 1)
    IN  IF i = 0 THEN << s >>
        ELSE << SubSeq(s, 1, i - 1) >> \o Split(SubSeq(s, i + 1, Len(s)), sep)

\* sep.join(parts)
RECURSIVE Join(_, _)
Join(sep, parts) ==
    IF parts = << >> THEN EmptyStr
    ELSE IF Len(parts) = 1 THEN parts[1]
    ELSE parts[1] \o << sep >> \o Join(sep, Tail(parts))

\* s.rstrip("/")
RECURSIVE RStripSep(_)
RStripSep(s) ==
    IF s # << >> /\ s[Len(s)] = SEP THEN RStripSep(SubSeq(s, 1, Len(s) - 1)) ELSE s

\* posixpath.dirname(p)
dirname(p) ==
    LET head == SubSeq(p, 1, RFindFrom(p, SEP, Len(p)))
    IN  IF head # << >> /\ (\E k \in 1..Len(head) : head[k] # SEP)
        THEN RStripSep(head)
        ELSE head

\* posixpath.isabs(p)
isabs(p) == p # << >> /\ p[1] = SEP

\* posixpath.join(a, b)
join(a, b) ==
    IF isabs(b) THEN b
    ELSE IF a = << >> \/ a[Len(a)] = SEP THEN a \o b
    ELSE a \o << SEP >> \o b

\* "__init__.py" in file
contains_init(file) == \E k \in 1..Len(file) : file[k] = INIT_PY

\* The elements of a list.
Range(s) == { s[k] : k \in 1..Len(s) }

-----------------------------------------------------------------------------
(* Inputs *)

\* DIR = os.path.abspath(os.path.dirname(__file__)), the default of self.dir.
DIR == << SEP, "site" >>

pkg        == << "pkg" >>
pkg_mod    == << "pkg", DOT, "mod" >>
pkg_native == << "pkg", DOT, "native" >>
Modules == { pkg, pkg_mod, pkg_native }

SourceFiles ==
    { << "src", SEP, "pkg", SEP, INIT_PY >>,
      << "src", SEP, "pkg", SEP, "mod.py" >>,
      << SEP, "site", SEP, "pkg", SEP, "mod.py" >>,
      << "mod.py" >> }

WheelFiles ==
    { << "pkg", SEP, INIT_PY >>,
      << "pkg", SEP, "native.so" >> }

\* The dicts of at most MaxEntries entries from Modules to files.
Tables(files) ==
    UNION { [ D -> files ] : D \in { X \in SUBSET Modules : Cardinality(X) <= MaxEntries } }

\* The orders in which dict.items() can yield the entries of a table.
ItemOrders(table) ==
    { o \in [ 1..Cardinality(DOMAIN table) -> DOMAIN table ] :
        \A i, j \in DOMAIN o : i # j => o[i] # o[j] }

items(table, order) ==
    [ k \in DOMAIN order |-> [ module |-> order[k], file |-> table[order[k]] ] ]

-----------------------------------------------------------------------------
(* ScikitBuildRedirectingFinder.__init__ : the table of search locations *)

NoEntry == [ module |-> EmptyStr, file |-> EmptyStr ]

\* Mutant: the package test of line 78 is left out, every key is the stripped name.
container_key_never_package(module, file) ==
    LET parts == Split(module, DOT)
    IN  Join(DOT, SubSeq(parts, 1, Len(parts) - 1))

\* module.split(".")[:-1], joined again, or the module itself for a package.
container_key(module, file) ==
    LET parts == Split(module, DOT)
        parent == Join(DOT, SubSeq(parts, 1, Len(parts) - 1))
    IN  IF contains_init(file) THEN module ELSE parent

\* Mutant: a relative directory is put into the table as it is.
resolve_parent_path_unchanged(dir, parent_path) == parent_path

\* A relative directory is joined onto self.dir.
resolve_parent_path(dir, parent_path) ==
    IF ~ isabs(parent_path) THEN join(dir, parent_path) ELSE parent_path

\* submodule_search_locations.setdefault(parent, set())
setdefault(locations, parent) ==
    IF parent \in DOMAIN locations THEN locations ELSE (parent :> {}) @@ locations

\* Mutant: the directory replaces the set instead of joining it.
add_location_overwrites(locations, parent, parent_path) ==
    [ locations EXCEPT ![parent] = { parent_path } ]

\* submodule_search_locations[parent].add(parent_path)
add_location(locations, parent, parent_path) ==
    [ locations EXCEPT ![parent] = @ \cup { parent_path } ]

\* One turn of the inner loop; a raised ImportError ends the loops.
scan_entry(acc, entry, dir) ==
    IF acc.error # NoEntry THEN acc
    ELSE
        LET parent == container_key(entry.module, entry.file)
            pk == IF contains_init(entry.file) THEN Append(acc.pkgs, parent) ELSE acc.pkgs
            locs == setdefault(acc.locations, parent)
            parent_path == dirname(entry.file)
        IN  IF parent = EmptyStr
            THEN [ acc EXCEPT !.pkgs = pk ]
            ELSE IF parent_path = EmptyStr
            THEN [ locations |-> locs, pkgs |-> pk, error |-> entry ]
            ELSE [ locations |-> add_location(locs, parent,
                                              resolve_parent_path(dir, parent_path)),
                   pkgs |-> pk,
                   error |-> NoEntry ]

RECURSIVE scan(_, _, _)
scan(acc, entries, dir) ==
    IF entries = << >> THEN acc
    ELSE scan(scan_entry(acc, Head(entries), dir), Tail(entries), dir)

\* for tree in (known_source_files, known_wheel_files): for module, file in tree.items()
build_locations(source_items, wheel_items, dir) ==
    scan([ locations |-> << >>, pkgs |-> << >>, error |-> NoEntry ],
         source_items \o wheel_items, dir)

-----------------------------------------------------------------------------
(* Processes *)

BuildDirs ==
    { EmptyStr,
      << SEP, "b" >>,
      << SEP, "c" >>,
      << SEP, "b", PATHSEP, SEP, "c" >> }

\* Values of SKBUILD_EDITABLE_VERBOSE; unset reads as "".
VerboseEnvs == { EmptyStr, << "0" >>, << "1" >> }

\* Values of SKBUILD_EDITABLE_SKIP in the first process; unset reads as "".
InitialMarkers == { EmptyStr, << SEP, "b" >> }

ReturnCodes == { 0, 1, 2 }
Outputs == { << "log" >> }

NoAnswer ==
    [ found |-> FALSE, name |-> EmptyStr, origin |-> EmptyStr, loader_path |-> EmptyStr,
      has_locations |-> FALSE, locations |-> {} ]

NoException == [ cmd |-> "none", returncode |-> 0, output |-> None ]

\* A process that has imported nothing yet: its finder's path and its os.environ.
\* calls lists the steps started by the current find_spec, finished their
\* CompletedProcess results, produced what each child wrote on its stdout.
NewProcess(environ, path) ==
    [ path |-> path,
      environ |-> environ,
      pc |-> "idle",
      fullname |-> EmptyStr,
      env |-> environ,
      verbose |-> FALSE,
      calls |-> << >>,
      finished |-> << >>,
      produced |-> << >>,
      answer |-> NoAnswer,
      exception |-> NoException,
      stdout |-> << >>,
      stderr |-> << >> ]

-----------------------------------------------------------------------------
(* ScikitBuildRedirectingFinder.find_spec and rebuild *)

\* The search locations handed to the module spec, None when the name has none.
lookup_locations(fullname, locations) ==
    IF fullname \in DOMAIN locations
    THEN [ has_locations |-> TRUE, locations |-> locations[fullname] ]
    ELSE [ has_locations |-> FALSE, locations |-> {} ]

\* Mutant: the source files are asked first.
find_origin_source_first(fullname, source_files, wheel_files) ==
    IF fullname \in DOMAIN source_files THEN "source"
    ELSE IF fullname \in DOMAIN wheel_files THEN "wheel"
    ELSE "none"

\* Which table answers: the wheel files are asked first.
find_origin(fullname, source_files, wheel_files) ==
    IF fullname \in DOMAIN wheel_files THEN "wheel"
    ELSE IF fullname \in DOMAIN source_files THEN "source"
    ELSE "none"

\* The redirected file of an answer.
redirect(origin, fullname, source_files, wheel_files, dir) ==
    IF origin = "wheel" THEN join(dir, wheel_files[fullname]) ELSE source_files[fullname]

\* importlib.util.spec_from_file_location(fullname, file, submodule_search_locations, loader)
spec_from_file_location(fullname, file, scope) ==
    [ found |-> TRUE, name |-> fullname, origin |-> file, loader_path |-> file,
      has_locations |-> scope.has_locations, locations |-> scope.locations ]

\* Mutant: the rebuild flag is not looked at.
calls_rebuild_always(origin, flag) == origin = "wheel"

\* find_spec calls self.rebuild() for a wheel file when the flag is set.
calls_rebuild(origin, flag) == origin = "wheel" /\ flag

\* Mutant: the marker is not looked at.
rebuild_skipped_no_guard(path, environ) == path = EmptyStr

\* rebuild returns at once: no build directory, or the marker lists it.
rebuild_skipped(path, environ) ==
    \/ path = EmptyStr
    \/ path \in Range(Split(environ.MARKER, PATHSEP))

\* env = os.environ.copy(); env[MARKER] = os.pathsep.join((env.get(MARKER, ""), self.path))
child_env(environ, path) ==
    [ environ EXCEPT !.MARKER = Join(PATHSEP, << environ.MARKER, path >>) ]

\* verbose = self.verbose or bool(env.get(VERBOSE, "")), and "0" turns it off.
resolve_verbose(flag, env) ==
    LET v == flag \/ env.VERBOSE # EmptyStr
    IN  IF env.VERBOSE = << "0" >> THEN FALSE ELSE v

\* subprocess.run(..., stdout=sys.stderr if verbose else PIPE): stdout is captured
\* only when piped.
completed_process(cmd, returncode, out, verb) ==
    [ cmd |-> cmd, returncode |-> returncode, stdout |-> IF verb THEN None ELSE out ]

\* What reaches sys.stderr of the process during and after a step.
step_stderr(result, out, verb) ==
    (IF verb THEN << [ text |-> "stream", arg |-> out ] >> ELSE << >>)
    \o (IF result.returncode # 0 /\ verb
        THEN << [ text |-> "ERROR", arg |-> result.stdout ] >>
        ELSE << >>)

\* Mutant: the result of the build step is not checked.
check_returncode_install_only(result) ==
    IF result.returncode # 0 /\ result.cmd = "install"
    THEN [ cmd |-> result.cmd, returncode |-> result.returncode, output |-> result.stdout ]
    ELSE NoException

\* Mutant: no result is checked (check=False and no check_returncode).
check_returncode_never(result) == NoException

\* result.check_returncode(): CalledProcessError(returncode, args, stdout, stderr)
check_returncode(result) ==
    IF result.returncode # 0
    THEN [ cmd |-> result.cmd, returncode |-> result.returncode, output |-> result.stdout ]
    ELSE NoException

-----------------------------------------------------------------------------
(* Actions *)

Running == procs[Len(procs)]
AtRest(p) == p.pc \in { "idle", "returned", "raised" }

\* subprocess.run starts a step: the caller blocks and a child process, which
\* inherits env and has a finder of its own, is appended to the chain.
start_step(p, step, child_path) ==
    << [ p EXCEPT !.pc = step, !.calls = Append(@, step) ],
       NewProcess(p.env, child_path) >>

\* install(): the finder is constructed and put on sys.meta_path, or __init__ raises.
install ==
    /\ installed = "no"
    /\ \E so \in ItemOrders(known_source_files), wo \in ItemOrders(known_wheel_files) :
         LET built == build_locations(items(known_source_files, so),
                                      items(known_wheel_files, wo), DIR)
         IN  IF built.error # NoEntry
             THEN /\ installed' = "ImportError"
                  /\ import_error' = built.error
                  /\ UNCHANGED << submodule_search_locations, pkgs >>
             ELSE /\ installed' = "ok"
                  /\ submodule_search_locations' = built.locations
                  /\ pkgs' = built.pkgs
                  /\ UNCHANGED import_error
    /\ UNCHANGED << known_source_files, known_wheel_files, rebuild_flag, verbose, build_dirs,
                    procs >>

\* find_spec(fullname) in the running process, up to its return, its raise, or the
\* start of the build step of rebuild().
find_spec(fullname) ==
    /\ installed = "ok"
    /\ AtRest(Running)
    /\ LET p == Running
           scope == lookup_locations(fullname, submodule_search_locations)
           origin == find_origin(fullname, known_source_files, known_wheel_files)
           call == [ p EXCEPT !.fullname = fullname, !.env = p.environ, !.verbose = FALSE,
                              !.calls = << >>, !.finished = << >>, !.produced = << >>,
                              !.answer = NoAnswer,
                              !.exception = NoException, !.stdout = << >>,
                              !.stderr = << >> ]
           answer == IF origin = "none" THEN NoAnswer
                     ELSE spec_from_file_location(
                              fullname,
                              redirect(origin, fullname, known_source_files,
                                       known_wheel_files, DIR),
                              scope)
           env == child_env(p.environ, p.path)
           verb == resolve_verbose(verbose, env)
       IN  IF calls_rebuild(origin, rebuild_flag) /\ ~ rebuild_skipped(p.path, p.environ)
           THEN /\ Len(procs) < MaxDepth
                /\ \E child_path \in build_dirs :
                     procs' = SubSeq(procs, 1, Len(procs) - 1)
                              \o start_step([ call EXCEPT
                                                !.env = env,
                                                !.verbose = verb,
                                                !.stdout = IF verb
                                                           THEN << [ text |-> "Running",
                                                                     arg |-> p.path ] >>
                                                           ELSE << >> ],
                                            "build", child_path)
           ELSE procs' = [ procs EXCEPT ![Len(procs)] =
                             [ call EXCEPT !.pc = "returned", !.answer = answer ] ]
    /\ UNCHANGED << known_source_files, known_wheel_files, rebuild_flag, verbose, installed,
                    submodule_search_locations, pkgs, import_error, build_dirs >>

\* The child of the build step exits: the build's subprocess.run returns in the
\* parent, which raises or goes on to start the install step.
build_step_returns(returncode, out) ==
    /\ Len(procs) >= 2
    /\ AtRest(Running)
    /\ procs[Len(procs) - 1].pc = "build"
    /\ LET p == procs[Len(procs) - 1]
           result == completed_process("build", returncode, out, p.verbose)
           raised == check_returncode(result)
           q == [ p EXCEPT !.finished = Append(@, result),
                           !.produced = Append(@, out),
                           !.stderr = @ \o step_stderr(result, out, p.verbose) ]
       IN  IF raised # NoException
           THEN procs' = SubSeq(procs, 1, Len(procs) - 2)
                         \o << [ q EXCEPT !.pc = "raised", !.exception = raised ] >>
           ELSE \E child_path \in build_dirs :
                  procs' = SubSeq(procs, 1, Len(procs) - 2)
                           \o start_step(q, "install", child_path)
    /\ UNCHANGED << known_source_files, known_wheel_files, rebuild_flag, verbose, installed,
                    submodule_search_locations, pkgs, import_error, build_dirs >>

\* The child of the install step exits: rebuild() raises or returns, and find_spec
\* returns the module spec of the wheel file.
install_step_returns(returncode, out) ==
    /\ Len(procs) >= 2
    /\ AtRest(Running)
    /\ procs[Len(procs) - 1].pc = "install"
    /\ LET p == procs[Len(procs) - 1]
           result == completed_process("install", returncode, out, p.verbose)
           raised == check_returncode(result)
           q == [ p EXCEPT !.finished = Append(@, result),
                           !.produced = Append(@, out),
                           !.stderr = @ \o step_stderr(result, out, p.verbose) ]
           scope == lookup_locations(p.fullname, submodule_search_locations)
           answer == spec_from_file_location(
                         p.fullname,
                         redirect("wheel", p.fullname, known_source_files,
                                  known_wheel_files, DIR),
                         scope)
       IN  IF raised # NoException
           THEN procs' = SubSeq(procs, 1, Len(procs) - 2)
                         \o << [ q EXCEPT !.pc = "raised", !.exception = raised ] >>
           ELSE procs' = SubSeq(procs, 1, Len(procs) - 2)
                         \o << [ q EXCEPT !.pc = "returned", !.answer = answer ] >>
    /\ UNCHANGED << known_source_files, known_wheel_files, rebuild_flag, verbose, installed,
                    submodule_search_locations, pkgs, import_error, build_dirs >>

\* The names a process asks for: the modules of the tables and one unknown to both.
other == << "other" >>
Fullnames == Modules \cup { other }

\* The tables of the example: a package in the source tree with a compiled module.
ExampleSource ==
    (pkg :> << "src", SEP, "pkg", SEP, INIT_PY >>)
    @@ (pkg_mod :> << "src", SEP, "pkg", SEP, "mod.py" >>)
ExampleWheel == (pkg_native :> << "pkg", SEP, "native.so" >>)
ExampleWheelPackage == (pkg :> << "pkg", SEP, INIT_PY >>) @@ ExampleWheel

NotInstalled ==
    /\ installed = "no"
    /\ submodule_search_locations = << >>
    /\ pkgs = << >>
    /\ import_error = NoEntry

\* The package of the example, every configuration of the finder and of the environment.
Init ==
    /\ known_source_files = ExampleSource
    /\ known_wheel_files \in { ExampleWheel, ExampleWheelPackage }
    /\ rebuild_flag \in BOOLEAN
    /\ verbose \in BOOLEAN
    /\ NotInstalled
    /\ build_dirs = BuildDirs
    /\ \E marker \in InitialMarkers, v \in VerboseEnvs, path \in BuildDirs :
         procs = << NewProcess([ MARKER |-> marker, VERBOSE |-> v ], path) >>

\* Every pair of tables, one build directory.
InitTables ==
    /\ known_source_files \in Tables(SourceFiles)
    /\ known_wheel_files \in Tables(WheelFiles)
    /\ rebuild_flag \in BOOLEAN
    /\ verbose = FALSE
    /\ NotInstalled
    /\ build_dirs = { << SEP, "b" >> }
    /\ \E marker \in InitialMarkers :
         procs = << NewProcess([ MARKER |-> marker, VERBOSE |-> EmptyStr ], << SEP, "b" >>) >>

Next ==
    \/ install
    \/ \E fullname \in Fullnames : find_spec(fullname)
    \/ \E returncode \in ReturnCodes, out \in Outputs : build_step_returns(returncode, out)
    \/ \E returncode \in ReturnCodes, out \in Outputs : install_step_returns(returncode, out)

Spec == Init /\ [][Next]_vars

SpecTables == InitTables /\ [][Next]_vars

-----------------------------------------------------------------------------
(* Properties *)

Frames == { procs[i] : i \in 1..Len(procs) }

\* The entries of both tables.
AllEntries ==
    { [ module |-> m, file |-> known_source_files[m], tree |-> "source" ] :
        m \in DOMAIN known_source_files }
    \cup { [ module |-> m, file |-> known_wheel_files[m], tree |-> "wheel" ] :
             m \in DOMAIN known_wheel_files }

\* The name with its last dotted segment removed, "" for a name without a dot.
ParentName(module) ==
    LET i == RFindFrom(module, DOT, Len(module))
    IN  IF i = 0 THEN EmptyStr ELSE SubSeq(module, 1, i - 1)

\* The file's own name is __init__.py.
IsInitializer(file) ==
    /\ file # << >>
    /\ file[Len(file)] = INIT_PY
    /\ Len(file) > 1 => file[Len(file) - 1] = SEP

\* The name under which an entry's directory is filed.
KeyOf(e) == IF IsInitializer(e.file) THEN e.module ELSE ParentName(e.module)

\* The entries of the marker, a delimiter-separated list.
MarkerEntries(environ) == Range(Split(environ.MARKER, PATHSEP))

\* The steps of one kind among the calls of a find_spec.
Count(calls, step) == Cardinality({ k \in 1..Len(calls) : calls[k] = step })

\* C1: resolve(name) answers with the build-output file when the name is in the
\* build-output table, also when it is in both tables; with the source file when the
\* name is only in the source-tree table; and declines, raising nothing, when the
\* name is in neither table.
C1_Precedence ==
    \A f \in Frames :
        LET n == f.fullname
        IN  /\ f.pc = "returned" /\ n \in DOMAIN known_wheel_files
                => /\ f.answer.found
                   /\ f.answer.origin = join(DIR, known_wheel_files[n])
                   /\ f.answer.loader_path = f.answer.origin
            /\ f.pc = "returned" /\ n \notin DOMAIN known_wheel_files
                                 /\ n \in DOMAIN known_source_files
                => /\ f.answer.found
                   /\ f.answer.origin = known_source_files[n]
                   /\ f.answer.loader_path = f.answer.origin
            /\ f.pc # "idle" /\ n \notin DOMAIN known_wheel_files
                             /\ n \notin DOMAIN known_source_files
                => f.pc = "returned" /\ f.answer = NoAnswer /\ f.exception = NoException

\* A name of both tables was answered with its build-output file.
C1_Witness ==
    \E f \in Frames :
        /\ f.pc = "returned"
        /\ f.fullname \in DOMAIN known_wheel_files \cap DOMAIN known_source_files
        /\ known_source_files[f.fullname] # join(DIR, known_wheel_files[f.fullname])
        /\ f.answer.origin = join(DIR, known_wheel_files[f.fullname])

\* C2: a resolve call invokes the build tool only for a name of the build-output
\* table with the rebuild flag set; and a call that answers for such a name, with a
\* non-empty build directory that the marker does not list, has run exactly one build
\* step and then exactly one install step, both finished before the answer.
C2_RebuildOnlyForWheel ==
    \A f \in Frames :
        /\ f.calls # << >> => f.fullname \in DOMAIN known_wheel_files /\ rebuild_flag
        /\ f.pc # "idle" /\ f.fullname \notin DOMAIN known_wheel_files => f.calls = << >>
        /\ ( /\ f.pc = "returned"
             /\ f.fullname \in DOMAIN known_wheel_files
             /\ rebuild_flag
             /\ f.path # EmptyStr
             /\ f.path \notin MarkerEntries(f.environ) )
           => /\ f.calls = << "build", "install" >>
              /\ Len(f.finished) = 2
              /\ f.finished[1].cmd = "build"
              /\ f.finished[2].cmd = "install"
              /\ f.answer.found

\* A build-output name was answered after one build step and one install step.
C2_Witness ==
    \E f \in Frames :
        /\ f.pc = "returned"
        /\ f.answer.found
        /\ f.calls = << "build", "install" >>
        /\ Len(f.finished) = 2

\* C3: a rebuild called in a process whose marker already lists the configured build
\* directory as one of its entries returns with no build step and no install step.
C3_MarkerSkips ==
    \A f \in Frames :
        ( /\ f.pc # "idle"
          /\ f.fullname \in DOMAIN known_wheel_files
          /\ rebuild_flag
          /\ f.path \in MarkerEntries(f.environ) )
        => /\ f.pc = "returned"
           /\ f.calls = << >>
           /\ f.finished = << >>
           /\ f.exception = NoException

\* A child of a rebuilding process, handed a marker that lists its build directory,
\* called rebuild and returned.
C3_Witness ==
    \E i \in 2..Len(procs) :
        /\ procs[i].pc = "returned"
        /\ procs[i].fullname \in DOMAIN known_wheel_files
        /\ rebuild_flag
        /\ procs[i].path # EmptyStr
        /\ procs[i].path = procs[i - 1].path
        /\ procs[i].path \in MarkerEntries(procs[i].environ)

\* The install step is started only after a build step that exited with zero, and a
\* failed build step ends the rebuild with an exception of its exit code.
C4_Order(f) ==
    /\ ( Len(f.finished) >= 1 /\ f.finished[1].returncode # 0 )
       => /\ f.calls = << "build" >>
          /\ f.pc = "raised"
          /\ f.exception.cmd = "build"
          /\ f.exception.returncode = f.finished[1].returncode
    /\ Count(f.calls, "install") > 0
       => /\ Len(f.finished) >= 1
          /\ f.finished[1].cmd = "build"
          /\ f.finished[1].returncode = 0

\* C4 as claimed: a rebuild whose build step exits nonzero never invokes the install
\* step and raises BuildFailure carrying the build step's exit code and output.
C4_CarriesOutput ==
    \A f \in Frames :
        /\ C4_Order(f)
        /\ ( Len(f.finished) >= 1 /\ f.finished[1].returncode # 0 )
           => f.exception.output = f.produced[1]

\* C4 amended: a rebuild whose build step exits nonzero never invokes the install step
\* and raises BuildFailure carrying the build step's exit code, and the build step's
\* output when the resolved verbosity is off; when it is on the output was streamed and
\* the exception carries none.
C4_CarriesCapturedOutput ==
    \A f \in Frames :
        /\ C4_Order(f)
        /\ ( Len(f.finished) >= 1 /\ f.finished[1].returncode # 0 )
           => f.exception.output = IF f.verbose THEN None ELSE f.produced[1]

\* A non-verbose rebuild stopped at a failed build step, its output in the exception.
C4_Witness ==
    \E f \in Frames :
        /\ f.pc = "raised"
        /\ ~ f.verbose
        /\ f.calls = << "build" >>
        /\ f.finished[1].returncode # 0
        /\ f.exception.output = f.produced[1]

\* C5: when a step of the rebuild triggered by resolve exits nonzero, resolve raises
\* BuildFailure to its caller: it gives neither an answer nor a decline, and it has
\* invoked at most one build step and at most one install step.
C5_FailurePropagates ==
    \A f \in Frames :
        /\ ( \E k \in 1..Len(f.finished) : f.finished[k].returncode # 0 )
           => /\ f.pc = "raised"
              /\ f.answer = NoAnswer
              /\ f.exception.cmd = f.finished[Len(f.finished)].cmd
              /\ f.exception.returncode = f.finished[Len(f.finished)].returncode
              /\ f.exception.returncode # 0
        /\ Count(f.calls, "build") <= 1
        /\ Count(f.calls, "install") <= 1
        /\ f.pc = "raised" => f.answer = NoAnswer /\ f.exception # NoException

\* A resolve whose install step failed after a good build step has raised.
C5_Witness ==
    \E f \in Frames :
        /\ f.pc = "raised"
        /\ Len(f.finished) = 2
        /\ f.finished[1].returncode = 0
        /\ f.finished[2].returncode # 0
        /\ f.exception.cmd = "install"

\* C6 as claimed: with verbosity off each step's stdout is captured, and the captured
\* stdout is written to the error stream if and only if the step exits nonzero.
C6_FailedOutputEmitted ==
    \A f \in Frames :
        ~ f.verbose =>
            \A k \in 1..Len(f.finished) :
                /\ f.finished[k].stdout = f.produced[k]
                /\ ( \E j \in 1..Len(f.stderr) : f.stderr[j].arg = f.finished[k].stdout )
                   <=> f.finished[k].returncode # 0

\* A step that failed with verbosity off.
C6_Witness ==
    \E f \in Frames :
        /\ ~ f.verbose
        /\ \E k \in 1..Len(f.finished) : f.finished[k].returncode # 0

\* The directory of an entry, as the entry's file names it.
DirOf(e) == dirname(e.file)

\* The entries that are filed under a name.
EntriesOf(key) == { e \in AllEntries : KeyOf(e) = key }

\* C7 as claimed: a relative container directory is resolved against rootDir only for
\* an entry of the build-output table; that of a source-tree entry is put into the
\* search scope unchanged.
C7_SourceUnchanged ==
    installed = "ok" =>
        \A e \in AllEntries :
            KeyOf(e) # EmptyStr =>
                IF e.tree = "wheel" /\ ~ isabs(DirOf(e))
                THEN DIR \o << SEP >> \o DirOf(e) \in submodule_search_locations[KeyOf(e)]
                ELSE DirOf(e) \in submodule_search_locations[KeyOf(e)]

\* C7 amended: a relative container directory is resolved against rootDir whichever
\* table its entry comes from, and only an absolute one is put into the search scope
\* unchanged: every directory of a search scope is absolute (the source entries
\* pkg: src/pkg/__init__.py and pkg.mod: src/pkg/mod.py contribute rootDir/src/pkg).
C7_RelativeResolvedInBothTables ==
    installed = "ok" =>
        /\ \A e \in AllEntries :
               KeyOf(e) # EmptyStr =>
                   IF ~ isabs(DirOf(e))
                   THEN DIR \o << SEP >> \o DirOf(e)
                            \in submodule_search_locations[KeyOf(e)]
                   ELSE DirOf(e) \in submodule_search_locations[KeyOf(e)]
        /\ \A key \in DOMAIN submodule_search_locations :
               \A d \in submodule_search_locations[key] : d # << >> /\ d[1] = SEP

\* A source-tree entry with a relative directory was filed, and so was one with an
\* absolute directory.
C7_Witness ==
    /\ installed = "ok"
    /\ \E e \in AllEntries :
           e.tree = "source" /\ KeyOf(e) # EmptyStr /\ ~ isabs(DirOf(e))
    /\ \E e \in AllEntries :
           e.tree = "source" /\ KeyOf(e) # EmptyStr /\ isabs(DirOf(e))

\* The directory an entry contributes to its container's search scope.
Contributed(e) == IF isabs(DirOf(e)) THEN DirOf(e) ELSE DIR \o << SEP >> \o DirOf(e)

\* C8: the merged search scope of a container name, which resolve attaches to that
\* name, is the set of the directories its entries of the source-tree table and of the
\* build-output table contribute, each once, whatever the order of the entries.
C8_MergedScope ==
    installed = "ok" =>
        /\ \A key \in DOMAIN submodule_search_locations :
               submodule_search_locations[key] = { Contributed(e) : e \in EntriesOf(key) }
        /\ \A f \in Frames :
               f.pc = "returned" /\ f.answer.found /\ EntriesOf(f.fullname) # {}
                   => /\ f.answer.has_locations
                      /\ f.answer.locations = { Contributed(e) : e \in EntriesOf(f.fullname) }

\* A container with entries in both tables was answered with a scope of both
\* directories, one of them contributed by two entries and kept once.
C8_Witness ==
    /\ installed = "ok"
    /\ \E f \in Frames :
           /\ f.pc = "returned"
           /\ f.answer.found
           /\ \E e1, e2, e3 \in EntriesOf(f.fullname) :
                  /\ e1.tree = "source"
                  /\ e2.tree = "wheel"
                  /\ e3 # e2
                  /\ Contributed(e1) # Contributed(e2)
                  /\ Contributed(e3) = Contributed(e2)
                  /\ f.answer.locations = { Contributed(e1), Contributed(e2) }

\* Every name a claim can be about: the names asked for and the keys of the table.
AllNames == Fullnames \cup DOMAIN submodule_search_locations

\* The name of an entry whose file is a package-initializer file.
IsContainer(n) == \E e \in AllEntries : e.module = n /\ IsInitializer(e.file)

\* C9 as claimed: a name is a key of the merged scope table if and only if it is a
\* container, the name of a table entry whose file is a package-initializer file.
C9_KeysAreContainers ==
    installed = "ok" =>
        \A n \in AllNames : n \in DOMAIN submodule_search_locations <=> IsContainer(n)

\* C9 amended: a name is a key of the merged scope table if and only if it is a
\* container or the dotted parent of a table entry whose file is no package
\* initializer, also when that parent is in neither table or its own file is an
\* ordinary module; every container is a key and is listed in pkgs; and resolve
\* attaches a search scope to a name it answers for if and only if the name is a key.
C9_KeysAreContainersOrParents ==
    installed = "ok" =>
        /\ \A n \in AllNames :
               n \in DOMAIN submodule_search_locations
                   <=> \/ IsContainer(n)
                       \/ \E e \in AllEntries :
                              /\ ~ IsInitializer(e.file)
                              /\ ParentName(e.module) = n
                              /\ n # EmptyStr
        /\ \A n \in AllNames : IsContainer(n) <=> n \in Range(pkgs)
        /\ \A f \in Frames :
               f.pc = "returned" /\ f.answer.found
                   => ( f.answer.has_locations
                            <=> f.fullname \in DOMAIN submodule_search_locations )

\* A container was answered with a scope, and a parent that is in neither table is
\* a key.
C9_Witness ==
    /\ installed = "ok"
    /\ \E f \in Frames :
           /\ f.pc = "returned"
           /\ IsContainer(f.fullname)
           /\ f.answer.has_locations
    /\ \E n \in DOMAIN submodule_search_locations :
           /\ ~ IsContainer(n)
           /\ n \notin DOMAIN known_source_files \cup DOMAIN known_wheel_files

\* C10 as claimed: along a chain of processes that re-enter the resolver, the marker
\* handed to a child lists every entry of the rebuilding process's marker and its
\* build directory, and for each build directory at most one process of the chain
\* invokes the build tool.
C10_OneRebuildPerDirectory ==
    /\ \A i \in 1..(Len(procs) - 1) :
           MarkerEntries(procs[i].environ) \cup { procs[i].path }
               \subseteq MarkerEntries(procs[i + 1].environ)
    /\ \A i, j \in 1..Len(procs) :
           ( /\ i < j
             /\ procs[i].calls # << >>
             /\ procs[j].calls # << >> )
           => procs[i].path # procs[j].path

\* A child process invoked the build tool for a directory other than its parent's.
C10_Witness ==
    \E i \in 2..Len(procs) :
        /\ procs[i].calls # << >>
        /\ procs[i - 1].calls # << >>
        /\ procs[i].path # procs[i - 1].path

====
